---- MODULE Spec2Model ----
(***************************************************************************)
(* A model of the liquid_notebooks plugin:                                 *)
(*   mdx_liquid_tags.py  the tag registry, the {% ... %} preprocessor and  *)
(*                       the Markdown extension wrapper                    *)
(*   liquid_tags.py      addLiquidTags, which installs the extension in    *)
(*                       the site generator's settings                     *)
(*   notebook.py         the notebook tag handler                          *)
(* Text is a sequence of one-character strings.                            *)
(***************************************************************************)
EXTENDS Integers, Sequences, FiniteSets, TLC

VARIABLES
    _tags,          \* _LiquidTagsPreprocessor._tags: tag name -> handler
    regLog,         \* history: the register(tag)(func) calls made, in order
    warnings,       \* history: the tags warnings.warn was called for, in order
    lines,          \* run: the argument
    page,           \* run: '\n'.join(lines)
    liquid_tags,    \* run: the list findall returned, as the loop rewrites it
    i,              \* run: the loop index (1-based)
    runpc,          \* run: "idle", "loop", "done", "error"
    run_err,        \* run: the exception that ended it, "" if none
    output,         \* run: the returned list of lines
    calls,          \* history: handler invocations of this run, in order
    settings,       \* gen.settings of the site generator
    installs,       \* history: number of addLiquidTags calls made
    md,             \* the host Markdown instance an extension is installed in
    nb              \* the notebook handler's invocation record

vars == << _tags, regLog, warnings, lines, page, liquid_tags, i, runpc, run_err,
           output, calls, settings, installs, md, nb >>

regVars == << _tags, regLog, warnings >>
runVars == << lines, page, liquid_tags, i, runpc, run_err, output, calls >>
instVars == << settings, installs, md >>

(***************************************************************************)
(* Text helpers (Python str and list operations)                           *)
(***************************************************************************)
NL == "\n"

\* \s and str.strip(): the whitespace characters of the model's alphabet
IsSpace(c) == c \in {" ", NL}

Min(a, b) == IF a < b THEN a ELSE b

RECURSIVE Concat(_)
\* ''.join(seq_of_strings)
Concat(ss) == IF ss = << >> THEN << >> ELSE Head(ss) \o Concat(Tail(ss))

RECURSIVE JoinNL(_)
\* '\n'.join(lines)
JoinNL(ls) ==
    IF ls = << >> THEN << >>
    ELSE IF Len(ls) = 1 THEN ls[1]
    ELSE ls[1] \o << NL >> \o JoinNL(Tail(ls))

\* index of the first newline of s, 0 if none
FirstNL(s) ==
    LET P == { k \in 1..Len(s) : s[k] = NL }
    IN IF P = {} THEN 0 ELSE CHOOSE k \in P : \A m \in P : k <= m

RECURSIVE SplitNL(_)
\* s.split("\n"): always at least one element
SplitNL(s) ==
    LET k == FirstNL(s)
    IN IF k = 0 THEN << s >>
       ELSE << SubSeq(s, 1, k - 1) >> \o SplitNL(SubSeq(s, k + 1, Len(s)))

\* number of leading whitespace characters of s
LeadingSpace(s) ==
    LET P == { k \in 1..Len(s) : ~IsSpace(s[k]) }
    IN IF P = {} THEN Len(s) ELSE (CHOOSE k \in P : \A m \in P : k <= m) - 1

\* number of leading non-whitespace characters of s
LeadingToken(s) ==
    LET P == { k \in 1..Len(s) : IsSpace(s[k]) }
    IN IF P = {} THEN Len(s) ELSE (CHOOSE k \in P : \A m \in P : k <= m) - 1

\* number of trailing whitespace characters of s
TrailingSpace(s) ==
    LET P == { k \in 1..Len(s) : ~IsSpace(s[k]) }
    IN IF P = {} THEN Len(s) ELSE Len(s) - (CHOOSE k \in P : \A m \in P : k >= m)

\* s.strip()
Strip(s) ==
    IF LeadingSpace(s) = Len(s) THEN << >>
    ELSE SubSeq(s, LeadingSpace(s) + 1, Len(s) - TrailingSpace(s))

\* ---- LIQUID_TAG: "{%", the shortest run of any characters, "%}"
\* the first position j >= from with s[j..j+1] = "%}", 0 if none: where the
\* non-greedy .*? stops (DOTALL: any character, newlines included, is skipped)
CloseAt(s, from) ==
    LET P == { j \in from..(Len(s) - 1) : s[j] = "%" /\ s[j + 1] = "}" }
    IN IF P = {} THEN 0 ELSE CHOOSE j \in P : \A m \in P : j <= m

RECURSIVE LIQUID_TAG_matches(_, _)
\* the non-overlapping matches of LIQUID_TAG in s from position pos on, left
\* to right, each as <<first, last>>
LIQUID_TAG_matches(s, pos) ==
    IF pos + 3 > Len(s) THEN << >>
    ELSE IF s[pos] = "{" /\ s[pos + 1] = "%" /\ CloseAt(s, pos + 2) # 0
         THEN << << pos, CloseAt(s, pos + 2) + 1 >> >>
              \o LIQUID_TAG_matches(s, CloseAt(s, pos + 2) + 2)
         ELSE LIQUID_TAG_matches(s, pos + 1)

\* LIQUID_TAG.findall(page): the matched texts
LIQUID_TAG_findall(s) ==
    LET M == LIQUID_TAG_matches(s, 1)
    IN [ k \in 1..Len(M) |-> SubSeq(s, M[k][1], M[k][2]) ]

\* LIQUID_TAG.split(page): the texts around the matches, one more than matches
LIQUID_TAG_split(s) ==
    LET M == LIQUID_TAG_matches(s, 1)
        n == Len(M)
    IN [ k \in 1..(n + 1) |->
           SubSeq(s, IF k = 1 THEN 1 ELSE M[k - 1][2] + 1,
                     IF k = n + 1 THEN Len(s) ELSE M[k][1] - 1) ]

\* ---- EXTRACT_TAG: optional whitespace, one token of non-whitespace
\* ---- characters (the only group), optional whitespace
\* EXTRACT_TAG.match(markup): None (ok = FALSE) when no non-whitespace
\* character follows the leading whitespace, else groups()[0] in tag
EXTRACT_TAG_match(markup) ==
    LET a == LeadingSpace(markup)
        rest == SubSeq(markup, a + 1, Len(markup))
        t == LeadingToken(rest)
    IN IF a = Len(markup)
       THEN [ ok |-> FALSE, tag |-> << >> ]
       ELSE [ ok |-> TRUE, tag |-> SubSeq(rest, 1, t) ]

\* EXTRACT_TAG.sub('', markup, 1): the leftmost match (leading whitespace,
\* the first token, the whitespace after it) is cut out; no match, no change
EXTRACT_TAG_sub(markup) ==
    LET a == LeadingSpace(markup)
        rest == SubSeq(markup, a + 1, Len(markup))
        t == LeadingToken(rest)
        after == SubSeq(rest, t + 1, Len(rest))
    IN IF a = Len(markup) THEN markup
       ELSE SubSeq(after, LeadingSpace(after) + 1, Len(after))

(***************************************************************************)
(* Bounds and the inputs drawn from them                                   *)
(***************************************************************************)
\* a document is built from at most MaxPieces pieces
MaxPieces == 5
\* at most MaxRegs register(tag)(func) calls are made
MaxRegs == 4

\* the pieces documents are built from: the two delimiters, two name
\* characters, a blank and a line break
DocPieces == { << "{", "%" >>, << "%", "}" >>, << "a" >>, << "b" >>, << " " >>, << NL >> }

PieceSeqs == UNION { [ 1..n -> DocPieces ] : n \in 0..MaxPieces }

RECURSIVE BreakLines(_, _)
\* the lines a text is written as: cur is the line being collected
BreakLines(s, cur) ==
    IF s = << >> THEN << cur >>
    ELSE IF Head(s) = NL THEN << cur >> \o BreakLines(Tail(s), << >>)
    ELSE BreakLines(Tail(s), Append(cur, Head(s)))

\* the delimiters, as pieces
Open == << "{", "%" >>
Close == << "%", "}" >>

\* longer documents, as pieces: a span between text, two and three spans
\* with and without text between them, a span over a line break, a span
\* without a tag name after one with a registered name, a delimiter inside a
\* span
ExamplePieceSeqs ==
    { << << "a" >>, Open, << " " >>, << "a" >>, << " " >>, << "b" >>, << " " >>, Close, << "b" >> >>,
      << Open, << "a" >>, Close, Open, << "b" >>, Close >>,
      << Open, << "b" >>, Close, << " " >>, Open, << "a" >>, << " " >>, << "b" >>, Close >>,
      << << "b" >>, Open, << "a" >>, << NL >>, << "b" >>, Close, << NL >>, Open, << "b" >>,
         << " " >>, << "a" >>, Close, << "a" >> >>,
      << Open, << "a" >>, Close, Open, Close >>,
      << Open, << "a" >>, << "b" >>, Close, << "a" >>, Open, << "a" >>, Close, << NL >>, << NL >>,
         Open, << "b" >>, Close >>,
      << Open, << "a" >>, << " " >>, Open, << "b" >>, Close, << " " >>, Close >>,
      << Open, << "a" >>, Close, Open, << "a" >>, Close, Open, << "b" >>, Close >> }

\* the documents handed to run: the empty list of lines, and every text of
\* at most MaxPieces pieces and every example as the list of its lines (no
\* line holds a newline)
Docs == { << >> } \cup { BreakLines(Concat(ps), << >>) : ps \in PieceSeqs \cup ExamplePieceSeqs }

\* tag names handlers are registered under
TagNames == { << "a" >>, << "b" >> }

\* the handlers other modules register: two that return, one that raises
Handlers == { "h1", "h2", "hraise" }

\* whether the handler returns (rather than raises)
Returns(h) == h # "hraise"

\* the string handler h returns for (tag, markup)
HandlerResult(h, tag, arg) ==
    IF h = "h1" THEN << "1" >> \o arg \o << "!" >>
    ELSE << "{", "%", "2" >> \o tag \o << "%", "}" >>

(***************************************************************************)
(* LiquidTags.register                                                     *)
(***************************************************************************)
\* a plausible slip: an existing registration is kept
RegisterKeepFirst(tags, tag, func) ==
    [ t \in DOMAIN tags \cup { tag } |-> IF t \in DOMAIN tags THEN tags[t] ELSE func ]

\* _LiquidTagsPreprocessor._tags[tag] = func
RegisterTag(tags, tag, func) ==
    [ t \in DOMAIN tags \cup { tag } |-> IF t = tag THEN func ELSE tags[t] ]

\* the registry with no tag: the class attribute _tags = {}
EmptyTags == [ t \in {} |-> "h1" ]

\* dec(func) of register(tag): warn if the tag is registered, then store
Register(tag, func) ==
    /\ Len(regLog) < MaxRegs
    /\ warnings' = IF tag \in DOMAIN _tags THEN Append(warnings, tag) ELSE warnings
    /\ _tags' = RegisterTag(_tags, tag, func)
    /\ regLog' = Append(regLog, << tag, func >>)
    /\ UNCHANGED << runVars, instVars, nb >>

(***************************************************************************)
(* _LiquidTagsPreprocessor.run                                             *)
(***************************************************************************)
\* zip(a, b): pairs up to the shorter of the two
Zip(a, b) == [ k \in 1..Min(Len(a), Len(b)) |-> << a[k], b[k] >> ]

\* itertools.chain(*pairs): the pairs' members in order
Chain(pairs) == [ k \in 1..(2 * Len(pairs)) |-> pairs[(k + 1) \div 2][2 - (k % 2)] ]

\* a plausible slip: the list is not padded with '', so zip drops the last
\* segment
ReassembleUnpadded(pg, tags) ==
    Concat(Chain(Zip(LIQUID_TAG_split(pg), tags)))

\* liquid_tags.append(''), then the segments and the tags interleaved
Reassemble(pg, tags) ==
    Concat(Chain(Zip(LIQUID_TAG_split(pg), Append(tags, << >>))))

\* a plausible slip: empty lines are dropped when splitting
ResplitDroppingEmpty(s) ==
    SelectSeq(SplitNL(s), LAMBDA l : l # << >>)

\* page.split("\n")
Resplit(s) == SplitNL(s)

\* a plausible slip: the list is walked from its end
SpanAtReversed(k, n) == n + 1 - k

\* enumerate(liquid_tags): the k-th iteration works on the k-th span of n
SpanAt(k, n) == k

\* markup[2:-2]: the span without its delimiters
Body(span) == SubSeq(span, 3, Len(span) - 2)

\* lines 31-32: join the lines and find the spans
RunStart(doc) ==
    /\ runpc = "idle"
    /\ lines' = doc
    /\ page' = JoinNL(doc)
    /\ liquid_tags' = LIQUID_TAG_findall(JoinNL(doc))
    /\ i' = 1
    /\ runpc' = "loop"
    /\ UNCHANGED << run_err, output, calls, regVars, instVars, nb >>

\* lines 34-40: one iteration of the loop
RunStep ==
    /\ runpc = "loop"
    /\ i <= Len(liquid_tags)
    /\ LET k == SpanAt(i, Len(liquid_tags))
           markup == Body(liquid_tags[k])
           m == EXTRACT_TAG_match(markup)
           arg == Strip(EXTRACT_TAG_sub(markup))
       IN IF ~m.ok
          THEN \* None.groups() raises
               /\ runpc' = "error"
               /\ run_err' = "AttributeError"
               /\ UNCHANGED << liquid_tags, i, calls >>
          ELSE IF m.tag \in DOMAIN _tags
          THEN /\ calls' = Append(calls, [ span |-> k, tag |-> m.tag, arg |-> arg,
                                           h |-> _tags[m.tag] ])
               /\ IF Returns(_tags[m.tag])
                  THEN /\ liquid_tags' = [ liquid_tags EXCEPT
                              ![k] = HandlerResult(_tags[m.tag], m.tag, arg) ]
                       /\ i' = i + 1
                       /\ UNCHANGED << runpc, run_err >>
                  ELSE /\ runpc' = "error"
                       /\ run_err' = "HandlerError"
                       /\ UNCHANGED << liquid_tags, i >>
          ELSE /\ i' = i + 1
               /\ UNCHANGED << liquid_tags, runpc, run_err, calls >>
    /\ UNCHANGED << lines, page, output, regVars, instVars, nb >>

\* lines 42-48: reassemble the page and split it into lines
RunFinish ==
    /\ runpc = "loop"
    /\ i > Len(liquid_tags)
    /\ output' = Resplit(Reassemble(page, liquid_tags))
    /\ runpc' = "done"
    /\ UNCHANGED << lines, page, liquid_tags, i, run_err, calls, regVars, instVars, nb >>

(***************************************************************************)
(* liquid_tags.addLiquidTags and LiquidTags.extendMarkdown                 *)
(***************************************************************************)
\* at most MaxInstalls addLiquidTags calls are made on a settings object
MaxInstalls == 3

\* LT_CONFIG = {'NOTEBOOK_DIR': 'notebooks'}
LT_CONFIG == [ NOTEBOOK_DIR |-> "notebooks" ]

\* the class object LiquidTags, as a member an extension list is searched for
LiquidTagsClass ==
    [ isClass |-> TRUE, cls |-> "LiquidTags", NOTEBOOK_DIR |-> "", htmlStash |-> FALSE ]

\* LiquidTags(configs): a new instance of the extension
NewLiquidTags(configs) ==
    [ isClass |-> FALSE, cls |-> "LiquidTags", NOTEBOOK_DIR |-> configs.NOTEBOOK_DIR,
      htmlStash |-> FALSE ]

\* an extension of another kind, as the user lists it in the settings
OtherExtension(name) ==
    [ isClass |-> FALSE, cls |-> name, NOTEBOOK_DIR |-> "", htmlStash |-> FALSE ]

\* x in list: some member compares equal to x
PyIn(x, list) == \E k \in 1..Len(list) : list[k] = x

\* the extensions lists a user's settings hold before the plugin is installed
UserExtLists ==
    UNION { [ 1..n -> { OtherExtension("codehilite"), OtherExtension("extra") } ] : n \in 0..2 }

\* the settings objects addLiquidTags may be given: MARKDOWN present (with or
\* without an 'extensions' key) or absent, MD_EXTENSIONS present or absent,
\* NOTEBOOK_DIR set or not
UserSettings ==
    { [ MARKDOWN |-> m, MD_EXTENSIONS |-> e, NOTEBOOK_DIR |-> d ] :
        m \in { [ has |-> FALSE, hasExt |-> FALSE, extensions |-> << >> ],
                [ has |-> TRUE, hasExt |-> FALSE, extensions |-> << >> ] }
              \cup { [ has |-> TRUE, hasExt |-> TRUE, extensions |-> l ] : l \in UserExtLists },
        e \in { [ has |-> FALSE, list |-> << >> ] }
              \cup { [ has |-> TRUE, list |-> l ] : l \in UserExtLists },
        d \in { "", "nbs" } }

\* lines 9-19: the list the extension is appended to
ExtListOf(st) ==
    IF st.MARKDOWN.has THEN st.MARKDOWN.extensions
    ELSE IF st.MD_EXTENSIONS.has THEN st.MD_EXTENSIONS.list
    ELSE << >>

\* lines 9-19: the settings with that list replaced (the list is shared with
\* the settings, so appending to it changes them)
WithExtList(st, l) ==
    IF st.MARKDOWN.has \/ ~st.MD_EXTENSIONS.has
    THEN [ st EXCEPT !.MARKDOWN = [ has |-> TRUE, hasExt |-> TRUE, extensions |-> l ] ]
    ELSE [ st EXCEPT !.MD_EXTENSIONS = [ has |-> TRUE, list |-> l ] ]

\* lines 21-24: LT_CONFIG with the keys the settings also hold overridden
ConfigsFrom(st) ==
    [ NOTEBOOK_DIR |-> IF st.NOTEBOOK_DIR # "" THEN st.NOTEBOOK_DIR
                       ELSE LT_CONFIG.NOTEBOOK_DIR ]

\* addLiquidTags(gen): lines 5-26
AddLiquidTags ==
    /\ installs < MaxInstalls
    /\ installs' = installs + 1
    /\ settings' =
         WithExtList(settings,
            IF ~PyIn(LiquidTagsClass, ExtListOf(settings))
            THEN Append(ExtListOf(settings), NewLiquidTags(ConfigsFrom(settings)))
            ELSE ExtListOf(settings))
    /\ UNCHANGED << md, regVars, runVars, nb >>

\* the preprocessors of a fresh Markdown instance, in order
BuiltinPreprocessors == << "normalize_whitespace", "html_block", "reference" >>

\* LiquidTags.extendMarkdown(md, md_globals), lines 70-72, called by the host
\* on the k-th member of the extensions list when it builds its Markdown
\* instance: the stash is remembered and the extension registered
ExtendMarkdown(k) ==
    /\ k \in 1..Len(ExtListOf(settings))
    /\ ExtListOf(settings)[k].cls = "LiquidTags"
    /\ ~ExtListOf(settings)[k].htmlStash
    /\ settings' = WithExtList(settings,
                      [ ExtListOf(settings) EXCEPT ![k].htmlStash = TRUE ])
    /\ md' = [ md EXCEPT !.registeredExtensions = Append(@, "LiquidTags") ]
    /\ UNCHANGED << installs, regVars, runVars, nb >>

(***************************************************************************)
(* notebook.py: the notebook tag handler                                   *)
(***************************************************************************)
\* a cell bound is written with at most MaxDigits digits
MaxDigits == 2

\* the character at position k of s, "" beyond its ends
At(s, k) == IF k \in 1..Len(s) THEN s[k] ELSE ""

\* whether lit occurs in s at position pos
LitAt(s, pos, lit) ==
    pos + Len(lit) - 1 <= Len(s) /\ SubSeq(s, pos, pos + Len(lit) - 1) = lit

\* the first position >= pos of s whose character is not in set
SkipWhile(s, pos, set) ==
    LET P == { k \in pos..Len(s) : s[k] \notin set }
    IN IF P = {} THEN Len(s) + 1 ELSE CHOOSE k \in P : \A m \in P : k <= m

\* [0-9]
DigitChars == { "0", "1", "2", "3", "4", "5", "6", "7", "8", "9" }

\* [a-z0-9\+\-], as far as the model's alphabet goes
LanguageChars == DigitChars \cup { "+", "-", "p", "x", "y" }

CellsLit == << "c", "e", "l", "l", "s", "[" >>
LanguageLit == << "l", "a", "n", "g", "u", "a", "g", "e", "[" >>

\* Python's None, and a value that is not None
None == [ some |-> FALSE, v |-> << >> ]
Some(x) == [ some |-> TRUE, v |-> x ]
NoneInt == [ some |-> FALSE, v |-> 0 ]
SomeInt(n) == [ some |-> TRUE, v |-> n ]

\* the optional group (cells\[)(?P<start>-?[0-9]*):(?P<end>-?[0-9]*)(\]) of
\* FORMAT tried at position pos
CellsClauseAt(s, pos) ==
    LET q1 == pos + Len(CellsLit)
        q2 == IF At(s, q1) = "-" THEN q1 + 1 ELSE q1
        q3 == SkipWhile(s, q2, DigitChars)
        q4 == q3 + 1
        q5 == IF At(s, q4) = "-" THEN q4 + 1 ELSE q4
        q6 == SkipWhile(s, q5, DigitChars)
    IN IF LitAt(s, pos, CellsLit) /\ At(s, q3) = ":" /\ At(s, q6) = "]"
       THEN [ ok |-> TRUE, start |-> Some(SubSeq(s, q1, q3 - 1)),
              end |-> Some(SubSeq(s, q4, q6 - 1)), next |-> q6 + 1 ]
       ELSE [ ok |-> FALSE, start |-> None, end |-> None, next |-> pos ]

\* the optional group (language\[)(?P<language>-?[a-z0-9\+\-]*)(\]) of FORMAT
\* tried at position pos
LanguageClauseAt(s, pos) ==
    LET q1 == pos + Len(LanguageLit)
        q2 == SkipWhile(s, q1, LanguageChars)
    IN IF LitAt(s, pos, LanguageLit) /\ At(s, q2) = "]"
       THEN [ ok |-> TRUE, language |-> Some(SubSeq(s, q1, q2 - 1)), next |-> q2 + 1 ]
       ELSE [ ok |-> FALSE, language |-> None, next |-> pos ]

\* FORMAT.search(markup): the pattern is anchored at both ends, and a match
\* exists exactly when the one taking the whole first token as src does, which
\* is the one the greedy search returns
FORMAT_search(s) ==
    LET a == LeadingSpace(s)
        t == LeadingToken(SubSeq(s, a + 1, Len(s)))
        p1 == SkipWhile(s, a + t + 1, { " ", NL })
        c == CellsClauseAt(s, p1)
        p2 == SkipWhile(s, c.next, { " ", NL })
        l == LanguageClauseAt(s, p2)
        p3 == SkipWhile(s, l.next, { " ", NL })
    IN IF t > 0 /\ p3 = Len(s) + 1
       THEN [ ok |-> TRUE, src |-> SubSeq(s, a + 1, a + t), start |-> c.start,
              end |-> c.end, language |-> l.language ]
       ELSE [ ok |-> FALSE, src |-> << >>, start |-> None, end |-> None,
              language |-> None ]

\* the value of a decimal digit
DigitVal(c) ==
    CASE c = "0" -> 0 [] c = "1" -> 1 [] c = "2" -> 2 [] c = "3" -> 3 [] c = "4" -> 4
      [] c = "5" -> 5 [] c = "6" -> 6 [] c = "7" -> 7 [] c = "8" -> 8 [] c = "9" -> 9

RECURSIVE DigitsVal(_, _)
\* the value of a run of digits, acc being the value of those read so far
DigitsVal(ds, acc) ==
    IF ds = << >> THEN acc ELSE DigitsVal(Tail(ds), 10 * acc + DigitVal(Head(ds)))

\* whether int(s) raises ValueError: s has no digit
PyIntRaises(s) == s = << >> \/ s = << "-" >>

\* int(s) for s matched by -?[0-9]* with at least one digit
PyInt(s) ==
    IF Head(s) = "-" THEN 0 - DigitsVal(Tail(s), 0) ELSE DigitsVal(s, 0)

\* if group: a matched, non-empty string
Truthy(g) == g.some /\ g.v # << >>

\* a plausible slip: the default of start is used for end too
EndOfDefaultZero(g) == IF Truthy(g) THEN SomeInt(PyInt(g.v)) ELSE SomeInt(0)

\* lines 108-111: start = int(start) if start else 0
StartOf(g) == IF Truthy(g) THEN PyInt(g.v) ELSE 0

\* lines 113-116: end = int(end) if end else None
EndOf(g) == IF Truthy(g) THEN SomeInt(PyInt(g.v)) ELSE NoneInt

\* less_args = ["lessc", "-", "--clean-css"]
LessArgs == << "lessc", "-", "--clean-css" >>

\* less_args.pop()
Pop(args) == SubSeq(args, 1, Len(args) - 1)

\* a plausible slip: an empty output is retried too
RetryOnEmptyOutput(proc) == proc.rc # 0 \/ proc.out = ""

\* line 164: the compiler is run again when the first run's exit code is not 0
NeedsRetry(proc) == proc.rc # 0

\* line 167: the compiled CSS is unusable
CssFailed(proc) == proc.rc # 0 \/ proc.out = ""

\* a plausible slip: the check of the path is lost
PathCheckSkipped(exists) == TRUE

\* line 124: the notebook is read only if its path exists
PathFound(exists) == exists

\* what a run of the compiler may end in: an exit code and an output
ProcOutcomes == [ rc : { 0, 1 }, out : { "", "css1", "css2" } ]

\* a call the handler makes to a collaborator, with what came of it (for
\* os.path.exists, rc is 0 when the path exists and 1 when it does not)
Call(fn, args, rc, out, raised) ==
    [ fn |-> fn, args |-> args, rc |-> rc, out |-> out, raised |-> raised ]

\* the handler before it is called
NbIdle ==
    [ pc |-> "idle", markup |-> << >>, src |-> << >>, start |-> 0, end |-> NoneInt,
      language |-> None, less_args |-> << >>, process |-> [ rc |-> 0, out |-> "" ],
      calls |-> << >>, stored |-> "", result |-> "", err |-> "" ]

\* notebook(preprocessor, tag, markup) is entered
NbInvoke(markup) ==
    /\ nb.pc = "idle"
    /\ nb' = [ nb EXCEPT !.pc = "parse", !.markup = markup ]
    /\ UNCHANGED << regVars, runVars, instVars >>

\* lines 97-116: match the argument text and convert the cell bounds
NbParse ==
    /\ nb.pc = "parse"
    /\ LET m == FORMAT_search(nb.markup)
       IN nb' =
            IF ~m.ok
            THEN [ nb EXCEPT !.pc = "failed", !.err = "ValueError: expected syntax" ]
            ELSE IF (Truthy(m.start) /\ PyIntRaises(m.start.v))
                    \/ (Truthy(m.end) /\ PyIntRaises(m.end.v))
            THEN [ nb EXCEPT !.pc = "failed", !.err = "ValueError: int" ]
            ELSE [ nb EXCEPT !.pc = "checkpath", !.src = m.src,
                             !.start = StartOf(m.start), !.end = EndOf(m.end),
                             !.language = m.language ]
    /\ UNCHANGED << regVars, runVars, instVars >>

\* lines 121-125: the path is looked up on disk
NbCheckPath ==
    /\ nb.pc = "checkpath"
    /\ \E exists \in BOOLEAN :
         nb' = [ nb EXCEPT
                   !.calls = Append(@, Call("os.path.exists", << >>,
                                           IF exists THEN 0 ELSE 1, "", FALSE)),
                   !.pc = IF PathFound(exists) THEN "render" ELSE "failed",
                   !.err = IF PathFound(exists) THEN "" ELSE "ValueError: not found" ]
    /\ UNCHANGED << regVars, runVars, instVars >>

\* lines 128-147: the exporter is built, the notebook read and rendered; any
\* of these may raise
NbRender ==
    /\ nb.pc = "render"
    /\ \E raised \in BOOLEAN :
         nb' = [ nb EXCEPT
                   !.calls = Append(@, Call("render", << >>, 0, "", raised)),
                   !.pc = IF raised THEN "failed" ELSE "less",
                   !.err = IF raised THEN "RenderError" ELSE "",
                   !.less_args = LessArgs ]
    /\ UNCHANGED << regVars, runVars, instVars >>

\* line 162: the compiler is run with --clean-css; subprocess.run raises when
\* the program cannot be started
NbLess ==
    /\ nb.pc = "less"
    /\ \/ \E p \in ProcOutcomes :
            nb' = [ nb EXCEPT
                      !.calls = Append(@, Call("subprocess.run", nb.less_args,
                                               p.rc, p.out, FALSE)),
                      !.process = p,
                      !.pc = IF NeedsRetry(p) THEN "retry" ELSE "checkcss" ]
       \/ nb' = [ nb EXCEPT
                    !.calls = Append(@, Call("subprocess.run", nb.less_args, 0, "", TRUE)),
                    !.pc = "failed", !.err = "OSError" ]
    /\ UNCHANGED << regVars, runVars, instVars >>

\* lines 165-166: the compiler is run again without the plugin flag
NbLessRetry ==
    /\ nb.pc = "retry"
    /\ \/ \E p \in ProcOutcomes :
            nb' = [ nb EXCEPT
                      !.less_args = Pop(nb.less_args),
                      !.calls = Append(@, Call("subprocess.run", Pop(nb.less_args),
                                               p.rc, p.out, FALSE)),
                      !.process = p,
                      !.pc = "checkcss" ]
       \/ nb' = [ nb EXCEPT
                    !.less_args = Pop(nb.less_args),
                    !.calls = Append(@, Call("subprocess.run", Pop(nb.less_args),
                                             0, "", TRUE)),
                    !.pc = "failed", !.err = "OSError" ]
    /\ UNCHANGED << regVars, runVars, instVars >>

\* lines 167-169: the result of the last run is checked
NbCheckCss ==
    /\ nb.pc = "checkcss"
    /\ nb' = IF CssFailed(nb.process)
             THEN [ nb EXCEPT !.pc = "failed",
                              !.err = "Failed to process notebook CSS. Is less installed?" ]
             ELSE [ nb EXCEPT !.pc = "store" ]
    /\ UNCHANGED << regVars, runVars, instVars >>

\* lines 170-177: the fragment is put in the stash and its token returned
NbStore ==
    /\ nb.pc = "store"
    /\ nb' = [ nb EXCEPT
                 !.calls = Append(@, Call("htmlStash.store", << "safe=True" >>, 0, "", FALSE)),
                 !.stored = nb.process.out,
                 !.result = "token",
                 !.pc = "done" ]
    /\ UNCHANGED << regVars, runVars, instVars >>

(***************************************************************************)
(* Inputs of the notebook handler                                          *)
(***************************************************************************)
\* the digits cell bounds are written with
BoundDigits == { "0", "2", "5" }

\* the texts -?[0-9]* matches, up to MaxDigits digits
NumStrs ==
    { sg \o ds : sg \in { << >>, << "-" >> },
                 ds \in UNION { [ 1..n -> BoundDigits ] : n \in 0..MaxDigits } }

\* the notebook paths tried
Paths == { << "p" >>, << "p", "5" >> }

\* a cells clause as written in a tag
CellsText(S, E) == CellsLit \o S \o << ":" >> \o E \o << "]" >>

\* the argument texts the parser is tried on: a path or none, a cells clause
\* (well-formed or without its colon) or none, a language clause or none,
\* with or without blanks between them
ParseMarkups ==
    { src \o sp1 \o cl \o sp2 \o lg :
        src \in { << >> } \cup Paths,
        sp1 \in { << >>, << " " >> },
        cl \in { << >> } \cup { CellsText(S, E) : S \in NumStrs, E \in NumStrs }
                        \cup { CellsLit \o S \o << "]" >> : S \in NumStrs },
        sp2 \in { << >>, << " " >> },
        lg \in { << >>, LanguageLit \o << "p", "y" >> \o << "]" >> } }

\* the argument texts the whole handler is run on
SampleMarkups ==
    { << >>,
      << "p" >>,
      << "p", " " >> \o CellsText(<< "2" >>, << "5" >>),
      << "p", " " >> \o CellsText(<< "-" >>, << "5" >>),
      << "p", " " >> \o CellsText(<< >>, << "-", "2" >>) \o << " " >>
          \o LanguageLit \o << "p", "y", "]" >>,
      << "p", " ", "x" >> }

\* the register calls made before documents are processed, as the runs of
\* the preprocessor find them
RunRegLogs ==
    { << << << "a" >>, "h1" >> >>,
      << << << "a" >>, "h1" >>, << << "b" >>, "h2" >> >>,
      << << << "b" >>, "h1" >>, << << "a" >>, "h2" >>, << << "b" >>, "hraise" >> >> }

RECURSIVE TagsAfter(_)
\* the registry after the register calls of log
TagsAfter(log) ==
    IF log = << >> THEN EmptyTags
    ELSE LET last == log[Len(log)]
         IN RegisterTag(TagsAfter(SubSeq(log, 1, Len(log) - 1)), last[1], last[2])

RECURSIVE WarningsAfter(_)
\* the warnings given by the register calls of log
WarningsAfter(log) ==
    IF log = << >> THEN << >>
    ELSE LET front == SubSeq(log, 1, Len(log) - 1)
             last == log[Len(log)]
         IN IF last[1] \in DOMAIN TagsAfter(front)
            THEN Append(WarningsAfter(front), last[1])
            ELSE WarningsAfter(front)

(***************************************************************************)
(* Specifications                                                          *)
(***************************************************************************)
\* a fresh Markdown instance
FreshMd == [ preprocessors |-> BuiltinPreprocessors, registeredExtensions |-> << >> ]

\* the state shared by every specification before anything is called
InitIdle ==
    /\ lines = << >>
    /\ page = << >>
    /\ liquid_tags = << >>
    /\ i = 1
    /\ runpc = "idle"
    /\ run_err = ""
    /\ output = << >>
    /\ calls = << >>
    /\ installs = 0
    /\ md = FreshMd
    /\ nb = NbIdle

\* the modules are imported: the registry is empty
InitRegister ==
    /\ InitIdle
    /\ _tags = EmptyTags
    /\ regLog = << >>
    /\ warnings = << >>
    /\ settings = [ MARKDOWN |-> [ has |-> FALSE, hasExt |-> FALSE, extensions |-> << >> ],
                    MD_EXTENSIONS |-> [ has |-> FALSE, list |-> << >> ],
                    NOTEBOOK_DIR |-> "" ]

NextRegister == \E tag \in TagNames, func \in Handlers : Register(tag, func)

SpecRegister == InitRegister /\ [][NextRegister]_vars

\* the tags are registered and a document is about to be processed
InitRun ==
    /\ InitIdle
    /\ \E log \in RunRegLogs :
         /\ regLog = log
         /\ _tags = TagsAfter(log)
         /\ warnings = WarningsAfter(log)
    /\ settings = [ MARKDOWN |-> [ has |-> FALSE, hasExt |-> FALSE, extensions |-> << >> ],
                    MD_EXTENSIONS |-> [ has |-> FALSE, list |-> << >> ],
                    NOTEBOOK_DIR |-> "" ]

NextRun ==
    \/ runpc = "idle" /\ \E doc \in Docs : RunStart(doc)
    \/ RunStep
    \/ RunFinish

SpecRun == InitRun /\ [][NextRun]_vars

\* the site generator's settings are read and the plugin is initialized
InitInstall ==
    /\ InitIdle
    /\ _tags = EmptyTags
    /\ regLog = << >>
    /\ warnings = << >>
    /\ settings \in UserSettings

NextInstall ==
    \/ AddLiquidTags
    \/ \E k \in 1..(MaxInstalls + 2) : ExtendMarkdown(k)

SpecInstall == InitInstall /\ [][NextInstall]_vars

NextParse ==
    \/ nb.pc = "idle" /\ \E m \in ParseMarkups : NbInvoke(m)
    \/ NbParse

SpecParse == InitRegister /\ [][NextParse]_vars

NextNotebook ==
    \/ nb.pc = "idle" /\ \E m \in SampleMarkups : NbInvoke(m)
    \/ NbParse
    \/ NbCheckPath
    \/ NbRender
    \/ NbLess
    \/ NbLessRetry
    \/ NbCheckCss
    \/ NbStore

SpecNotebook == InitRegister /\ [][NextNotebook]_vars

(***************************************************************************)
(* Properties of _LiquidTagsPreprocessor.run                               *)
(***************************************************************************)
\* the spans of the page as run was given it
Spans == LIQUID_TAG_findall(page)

\* span k has a tag name
HasName(k) == EXTRACT_TAG_match(Body(Spans[k])).ok

\* span k has a tag name that is registered
IsRegistered(k) ==
    HasName(k) /\ EXTRACT_TAG_match(Body(Spans[k])).tag \in DOMAIN _tags

\* what replaces a span: the handler's return value if its tag name is
\* registered, the span itself otherwise
Replacement(span) ==
    LET m == EXTRACT_TAG_match(Body(span))
    IN IF m.ok /\ m.tag \in DOMAIN _tags
       THEN HandlerResult(_tags[m.tag], m.tag, Strip(EXTRACT_TAG_sub(Body(span))))
       ELSE span

RECURSIVE Substituted(_)
\* the text s read left to right, each span replaced where it stands and
\* every other character copied
Substituted(s) ==
    IF s = << >> THEN << >>
    ELSE IF Len(s) >= 4 /\ s[1] = "{" /\ s[2] = "%" /\ CloseAt(s, 3) # 0
         THEN Replacement(SubSeq(s, 1, CloseAt(s, 3) + 1))
              \o Substituted(SubSeq(s, CloseAt(s, 3) + 2, Len(s)))
         ELSE << Head(s) >> \o Substituted(Tail(s))

\* every span has a tag name and every handler a span invokes returns
AllSpansExpand ==
    \A k \in 1..Len(Spans) :
        /\ HasName(k)
        /\ IsRegistered(k) => Returns(_tags[EXTRACT_TAG_match(Body(Spans[k])).tag])

\* C1: when every span of the document has a tag name and every invoked
\* handler returns, run returns, and the text it returns is the joined input
\* with each registered span replaced by its handler's return value and
\* everything else, unregistered spans included, copied unchanged.
C1_OutputIsSubstitution ==
    /\ runpc = "done" => JoinNL(output) = Substituted(page)
    /\ runpc = "error" => ~AllSpansExpand
    /\ runpc # "idle" => page = JoinNL(lines)

\* a run that replaced one span and left another, unregistered one in place
C1_Witness ==
    /\ runpc = "done"
    /\ Len(Spans) = 2
    /\ Len(calls) = 1
    /\ JoinNL(output) # page

\* C3: a span whose body holds no token never makes run raise, invokes no
\* handler and is still in its place, unchanged, when run returns.
C3_MalformedSpanLeftUnexpanded ==
    /\ run_err # "AttributeError"
    /\ \A j \in 1..Len(calls) : HasName(calls[j].span)
    /\ runpc = "done" =>
         \A k \in 1..Len(Spans) : ~HasName(k) => liquid_tags[k] = Spans[k]

\* C4 as claimed: for input without a tag span, the empty list of lines
\* included, run returns a list of lines equal to its input.
C4_IdentityOnEveryInput ==
    (runpc = "done" /\ Spans = << >>) => output = lines

\* C4 as amended: for input without a tag span run returns the same text; a
\* non-empty list of lines is returned as an equal list, and the empty list
\* as the list holding one empty line.
C4_IdentityOnNonEmptyInput ==
    (runpc = "done" /\ Spans = << >>) =>
        /\ JoinNL(output) = JoinNL(lines)
        /\ lines # << >> => output = lines
        /\ lines = << >> => output = << << >> >>

\* a tag-free document of several lines, one of them empty, came back
C4_Witness ==
    /\ runpc = "done"
    /\ Spans = << >>
    /\ Len(lines) >= 3
    /\ \E k \in 1..Len(lines) : lines[k] = << >>
    /\ \E k \in 1..Len(lines) : lines[k] # << >>
    /\ output = lines

\* the indices of the registered spans, in the order of the text
RegisteredSpans == SelectSeq([ k \in 1..Len(Spans) |-> k ], IsRegistered)

\* what the j-th invocation returned
Returned(j) == HandlerResult(calls[j].h, calls[j].tag, calls[j].arg)

RECURSIVE Interleaved(_, _, _)
\* the segments of the page interleaved, from span k on, with the spans or,
\* for the registered ones, what the invocations from the j-th on returned
Interleaved(segs, k, j) ==
    IF k > Len(Spans) THEN segs[k]
    ELSE IF IsRegistered(k)
         THEN segs[k] \o Returned(j) \o Interleaved(segs, k + 1, j + 1)
         ELSE segs[k] \o Spans[k] \o Interleaved(segs, k + 1, j)

LastRegistration(tag) ==
    LET P == { k \in 1..Len(regLog) : regLog[k][1] = tag }
    IN IF P = {} THEN 0 ELSE CHOOSE k \in P : \A m \in P : k >= m

\* the tags of the register calls that found their tag already registered
Reregistered ==
    LET again(k) == \E m \in 1..(k - 1) : regLog[m][1] = regLog[k][1]
        idx == SelectSeq([ k \in 1..Len(regLog) |-> k ], again)
    IN [ n \in 1..Len(idx) |-> regLog[idx[n]][1] ]

\* C6: the registry maps exactly the names registered so far, each to the
\* handler of its most recent registration; a warning was given for each
\* registration of a name already present, and for no other.
C6_LastRegistrationWins ==
    /\ DOMAIN _tags = { regLog[k][1] : k \in 1..Len(regLog) }
    /\ \A tag \in DOMAIN _tags : _tags[tag] = regLog[LastRegistration(tag)][2]
    /\ warnings = Reregistered

\* a name registered twice with different handlers, and another name once
C6_Witness ==
    /\ Len(regLog) >= 3
    /\ Len(warnings) = 1
    /\ \E k \in 1..Len(regLog) :
         /\ regLog[k][1] = warnings[1]
         /\ regLog[k][2] # _tags[warnings[1]]
    /\ Cardinality(DOMAIN _tags) = 2

(***************************************************************************)
(* Properties of addLiquidTags and extendMarkdown                          *)
(***************************************************************************)
\* the LiquidTags extensions in the settings' extension list
Installed ==
    SelectSeq(ExtListOf(settings), LAMBDA x : ~x.isClass /\ x.cls = "LiquidTags")

\* C2: after one or more addLiquidTags calls on a settings object its
\* extension list holds exactly one LiquidTags extension.
C2_InstalledOnce ==
    installs >= 1 => Len(Installed) = 1

\* C10: once extendMarkdown has run on a Markdown instance, the tag
\* preprocessor is among the instance's preprocessors.
C10_PreprocessorInstalled ==
    md.registeredExtensions # << >> =>
        \E k \in 1..Len(md.preprocessors) : md.preprocessors[k] = "mdincludes"

(***************************************************************************)
(* Properties of the notebook handler                                      *)
(***************************************************************************)
\* the runs of the CSS compiler made so far
LessCalls == SelectSeq(nb.calls, LAMBDA c : c.fn = "subprocess.run")

\* the calls of the stash made so far
StoreCalls == SelectSeq(nb.calls, LAMBDA c : c.fn = "htmlStash.store")

\* the handler has left the stage of the compiler runs
PastLess == nb.pc \in { "checkcss", "store", "done", "failed" } /\ LessCalls # << >>

CssError == "Failed to process notebook CSS. Is less installed?"

\* C7: the compiler is run at most twice, first as lessc - --clean-css and
\* again as lessc - exactly when the first run's exit code is not 0; when the
\* last run ends with code 0 and some output that output is the CSS used and
\* the handler does not fail, and when it ends with another code or without
\* output the handler fails with the CSS error.
C7_CompilerRetriedOnce ==
    /\ Len(LessCalls) <= 2
    /\ Len(LessCalls) >= 1 => LessCalls[1].args = << "lessc", "-", "--clean-css" >>
    /\ Len(LessCalls) = 2 =>
         /\ LessCalls[2].args = << "lessc", "-" >>
         /\ ~LessCalls[1].raised
         /\ LessCalls[1].rc # 0
    /\ (PastLess /\ ~LessCalls[1].raised /\ LessCalls[1].rc # 0) => Len(LessCalls) = 2
    /\ (PastLess /\ nb.pc # "checkcss" /\ ~LessCalls[Len(LessCalls)].raised) =>
         LET last == LessCalls[Len(LessCalls)]
         IN IF last.rc = 0 /\ last.out # ""
            THEN /\ nb.pc \in { "store", "done" }
                 /\ nb.err = ""
                 /\ nb.pc = "done" => nb.stored = last.out
            ELSE /\ nb.pc = "failed"
                 /\ nb.err = CssError
    /\ nb.err = CssError => LessCalls # << >>

\* the first run failed, the second gave the CSS that was stored
C7_Witness ==
    /\ nb.pc = "done"
    /\ Len(LessCalls) = 2
    /\ LessCalls[1].out = "css1"
    /\ nb.stored = "css2"

\* the place of a collaborator in the order of the handler's stages
Stage(fn) ==
    CASE fn = "os.path.exists" -> 2
      [] fn = "render" -> 3
      [] fn = "subprocess.run" -> 4
      [] fn = "htmlStash.store" -> 5

\* the number of calls of fn made so far
Count(fn) == Len(SelectSeq(nb.calls, LAMBDA c : c.fn = fn))

\* C8: the handler's stages run in the order parse, path check, render, CSS
\* compilation, store, and a stage that fails ends the invocation: a malformed
\* argument text fails before any collaborator is called, a missing path
\* before the renderer or the compiler is called, a failed invocation never
\* calls the stash, and a successful one calls store once, with safe=True,
\* and returns its token.
C8_StagesInOrder ==
    /\ \A j, k \in 1..Len(nb.calls) :
         j < k => /\ Stage(nb.calls[j].fn) <= Stage(nb.calls[k].fn)
                  /\ Stage(nb.calls[j].fn) = Stage(nb.calls[k].fn) =>
                        nb.calls[j].fn = "subprocess.run"
    /\ nb.pc \in { "idle", "parse" } => nb.calls = << >>
    /\ \A k \in 1..Len(nb.calls) :
         \* a later stage is entered only after each earlier one succeeded
         /\ Stage(nb.calls[k].fn) >= 3 =>
              /\ Count("os.path.exists") = 1
              /\ nb.calls[1].rc = 0
         /\ Stage(nb.calls[k].fn) >= 4 =>
              /\ Count("render") = 1
              /\ ~nb.calls[2].raised
         /\ Stage(nb.calls[k].fn) = 5 =>
              /\ LessCalls # << >>
              /\ ~CssFailed(LessCalls[Len(LessCalls)])
    /\ nb.err \in { "ValueError: expected syntax", "ValueError: int" } => nb.calls = << >>
    /\ nb.err = "ValueError: not found" =>
         /\ Len(nb.calls) = 1
         /\ nb.calls[1].fn = "os.path.exists"
    /\ nb.pc # "done" => StoreCalls = << >> /\ nb.result = ""
    /\ nb.pc = "failed" <=> nb.err # ""
    /\ nb.pc = "done" =>
         /\ Len(StoreCalls) = 1
         /\ StoreCalls[1].args = << "safe=True" >>
         /\ nb.calls[Len(nb.calls)].fn = "htmlStash.store"
         /\ nb.result = "token"

\* an invocation that went through every stage and returned the token
C8_Witness ==
    /\ nb.pc = "done"
    /\ [ k \in 1..Len(nb.calls) |-> nb.calls[k].fn ] =
         << "os.path.exists", "render", "subprocess.run", "htmlStash.store" >>
    /\ nb.result = "token"

\* the texts of the integers a cell bound may be written as
IntTexts == { n \in NumStrs : n # << >> /\ n # << "-" >> }

\* the decimal value of a run of digits, read from its last digit
RECURSIVE Decimal(_)
Decimal(ds) ==
    IF ds = << >> THEN 0
    ELSE 10 * Decimal(SubSeq(ds, 1, Len(ds) - 1))
         + (CHOOSE n \in 0..9 : DigitVal(ds[Len(ds)]) = n)

\* the integer a text of IntTexts stands for
IntValue(n) == IF n[1] = "-" THEN 0 - Decimal(Tail(n)) ELSE Decimal(n)

\* the handler has parsed its argument text
Parsed == nb.pc \notin { "idle", "parse" }

\* the position of the colon in the argument text, 0 if it has none
ColonAt(s) ==
    LET P == { k \in 1..Len(s) : s[k] = ":" }
    IN IF P = {} THEN 0 ELSE CHOOSE k \in P : \A m \in P : k <= m

\* the argument text is path cells[S:E] with S and E each empty or the text
\* of an integer
IsPathAndCells(s, path, S, E) ==
    /\ S \in IntTexts \cup { << >> }
    /\ E \in IntTexts \cup { << >> }
    /\ s = path \o << " " >> \o CellsText(S, E)

\* the cell range the claim gives for S and E
RangeAsClaimed(S, E) ==
    /\ nb.start = IF S = << >> THEN 0 ELSE IntValue(S)
    /\ nb.end = IF E = << >> THEN NoneInt ELSE SomeInt(IntValue(E))

\* C9: for an argument text path cells[S:E], S and E each empty or the text
\* of an integer, the handler takes start = int(S), or 0 if S is empty, and
\* end = int(E), or None if E is empty; without a cells clause it takes
\* start = 0 and end = None.
C9_CellRangeParsed ==
    Parsed =>
      /\ \A path \in Paths :
           LET s == nb.markup
               c == ColonAt(s)
               S == SubSeq(s, Len(path) + Len(CellsLit) + 2, c - 1)
               E == SubSeq(s, c + 1, Len(s) - 1)
           IN /\ (c > Len(path) + Len(CellsLit) + 1 /\ IsPathAndCells(s, path, S, E)) =>
                    /\ nb.pc = "checkpath"
                    /\ nb.src = path
                    /\ RangeAsClaimed(S, E)
              /\ s = path =>
                    /\ nb.pc = "checkpath"
                    /\ nb.src = path
                    /\ nb.start = 0
                    /\ nb.end = NoneInt
      /\ nb.markup = << "p", " " >> \o CellsText(<< "2" >>, << "5" >>) =>
            nb.pc = "checkpath" /\ nb.start = 2 /\ nb.end = SomeInt(5)
      /\ nb.markup = << "p", " " >> \o CellsText(<< >>, << "5" >>) =>
            nb.pc = "checkpath" /\ nb.start = 0 /\ nb.end = SomeInt(5)
      /\ nb.markup = << "p", " " >> \o CellsText(<< "2" >>, << >>) =>
            nb.pc = "checkpath" /\ nb.start = 2 /\ nb.end = NoneInt
      /\ nb.markup = << "p", " " >> \o CellsText(<< "-", "2" >>, << "-", "5" >>) =>
            nb.pc = "checkpath" /\ nb.start = 0 - 2 /\ nb.end = SomeInt(0 - 5)

\* a clause with a negative start and a two-digit end was parsed
C9_Witness ==
    /\ nb.pc = "checkpath"
    /\ nb.markup = << "p", " " >> \o CellsText(<< "-", "2" >>, << "5", "0" >>)
    /\ nb.start = 0 - 2
    /\ nb.end = SomeInt(50)

====
